---- MODULE Spec2Model ----
(***************************************************************************)
(* news2rss: an HTTP handler that parses a slash-delimited path into a     *)
(* NewsAPI query, fetches the articles and renders them as an RSS feed.    *)
(* One request of get_feed_sources is modelled from its arrival to its     *)
(* HTTP response.  A Python str is the sequence of its Unicode code        *)
(* points, S("...") being the str of an ASCII literal; str.split,          *)
(* str.join, str.upper, int() and the substring test are computed on code  *)
(* points (Unicode 14.0, the tables of Python 3.11).  Labels of the model  *)
(* (the position of the handler, exception classes, field names of the     *)
(* provider's records, abort messages) are TLA+ strings.                   *)
(***************************************************************************)
EXTENDS Integers, Sequences, FiniteSets, TLC

VARIABLES pc, feed_type, subset, query_path, sources_cache, upstream,
          query, query_meta, articles, provider_calls, status, reason, body

vars == <<pc, feed_type, subset, query_path, sources_cache, upstream,
          query, query_meta, articles, provider_calls, status, reason, body>>

\* ------------------------------------------------------------------ bounds
\* Longest token sequence of a request path.
MaxTokens == 4
\* Longest article list the provider returns.
MaxArticles == 2

\* ------------------------------------------------------- Python primitives
\* The printable ASCII characters U+0020 to U+005F, and U+0061 to U+007E.
PrintableLow == " !\"#$%&'()*+,-./0123456789:;<=>?@ABCDEFGHIJKLMNOPQRSTUVWXYZ[\\]^_"

PrintableHigh == "abcdefghijklmnopqrstuvwxyz{|}~"

\* ord(c) of the one-character ASCII literals.
Ord ==
    [c \in {SubSeq(PrintableLow, i, i) : i \in 1..Len(PrintableLow)}
            \cup {SubSeq(PrintableHigh, i, i) : i \in 1..Len(PrintableHigh)}
            \cup {"\t", "\n", "\f", "\r"} |->
        IF c = "\t" THEN 9
        ELSE IF c = "\n" THEN 10
        ELSE IF c = "\f" THEN 12
        ELSE IF c = "\r" THEN 13
        ELSE IF \E i \in 1..Len(PrintableLow) : SubSeq(PrintableLow, i, i) = c
        THEN 31 + (CHOOSE i \in 1..Len(PrintableLow) : SubSeq(PrintableLow, i, i) = c)
        ELSE 96 + (CHOOSE i \in 1..Len(PrintableHigh) : SubSeq(PrintableHigh, i, i) = c)]

\* The str of an ASCII literal: its code points.
S(lit) == [i \in 1..Len(lit) |-> Ord[SubSeq(lit, i, i)]]

\* Python's None (no str: -1 is no code point).
None == <<0 - 1>>

\* Truth value of a str-or-None: None and "" are falsy.
Truthy(v) == v # None /\ v # <<>>

\* Index of the first occurrence of the code point c in s at or after i, 0 if none.
RECURSIVE find(_, _, _)
find(s, c, i) ==
    IF i > Len(s) THEN 0
    ELSE IF s[i] = c THEN i
    ELSE find(s, c, i + 1)

\* str.split(sep) for a one-character separator: empty pieces are kept and
\* the result always has at least one piece.
RECURSIVE split(_, _)
split(s, sep) ==
    LET i == find(s, sep[1], 1)
    IN  IF i = 0 THEN <<s>>
        ELSE <<SubSeq(s, 1, i - 1)>> \o split(SubSeq(s, i + 1, Len(s)), sep)

\* sep.join(parts)
RECURSIVE join(_, _)
join(sep, parts) ==
    IF Len(parts) = 0 THEN <<>>
    ELSE IF Len(parts) = 1 THEN parts[1]
    ELSE parts[1] \o sep \o join(sep, Tail(parts))

\* sub in s, for strs.
Contains(s, sub) ==
    \E i \in 1..(Len(s) - Len(sub) + 1) : SubSeq(s, i, i + Len(sub) - 1) = sub

\* str.upper() of one character, where the result is one character:
\* <<first, last, stride, delta>> maps first, first + stride, ..., last to
\* itself + delta.
UpperRanges ==
    { <<97, 122, 1, 0 - 32>>, <<181, 181, 1, 743>>,
      <<224, 246, 1, 0 - 32>>, <<248, 254, 1, 0 - 32>>,
      <<255, 255, 1, 121>>, <<257, 303, 2, 0 - 1>>,
      <<305, 305, 1, 0 - 232>>, <<307, 311, 2, 0 - 1>>,
      <<314, 328, 2, 0 - 1>>, <<331, 375, 2, 0 - 1>>,
      <<378, 382, 2, 0 - 1>>, <<383, 383, 1, 0 - 300>>,
      <<384, 384, 1, 195>>, <<387, 389, 2, 0 - 1>>, <<392, 392, 1, 0 - 1>>,
      <<396, 396, 1, 0 - 1>>, <<402, 402, 1, 0 - 1>>, <<405, 405, 1, 97>>,
      <<409, 409, 1, 0 - 1>>, <<410, 410, 1, 163>>, <<414, 414, 1, 130>>,
      <<417, 421, 2, 0 - 1>>, <<424, 424, 1, 0 - 1>>,
      <<429, 429, 1, 0 - 1>>, <<432, 432, 1, 0 - 1>>,
      <<436, 438, 2, 0 - 1>>, <<441, 441, 1, 0 - 1>>,
      <<445, 445, 1, 0 - 1>>, <<447, 447, 1, 56>>, <<453, 453, 1, 0 - 1>>,
      <<454, 454, 1, 0 - 2>>, <<456, 456, 1, 0 - 1>>,
      <<457, 457, 1, 0 - 2>>, <<459, 459, 1, 0 - 1>>,
      <<460, 460, 1, 0 - 2>>, <<462, 476, 2, 0 - 1>>,
      <<477, 477, 1, 0 - 79>>, <<479, 495, 2, 0 - 1>>,
      <<498, 498, 1, 0 - 1>>, <<499, 499, 1, 0 - 2>>,
      <<501, 501, 1, 0 - 1>>, <<505, 543, 2, 0 - 1>>,
      <<547, 563, 2, 0 - 1>>, <<572, 572, 1, 0 - 1>>,
      <<575, 576, 1, 10815>>, <<578, 578, 1, 0 - 1>>,
      <<583, 591, 2, 0 - 1>>, <<592, 592, 1, 10783>>,
      <<593, 593, 1, 10780>>, <<594, 594, 1, 10782>>,
      <<595, 595, 1, 0 - 210>>, <<596, 596, 1, 0 - 206>>,
      <<598, 599, 1, 0 - 205>>, <<601, 601, 1, 0 - 202>>,
      <<603, 603, 1, 0 - 203>>, <<604, 604, 1, 42319>>,
      <<608, 608, 1, 0 - 205>>, <<609, 609, 1, 42315>>,
      <<611, 611, 1, 0 - 207>>, <<613, 613, 1, 42280>>,
      <<614, 614, 1, 42308>>, <<616, 616, 1, 0 - 209>>,
      <<617, 617, 1, 0 - 211>>, <<618, 618, 1, 42308>>,
      <<619, 619, 1, 10743>>, <<620, 620, 1, 42305>>,
      <<623, 623, 1, 0 - 211>>, <<625, 625, 1, 10749>>,
      <<626, 626, 1, 0 - 213>>, <<629, 629, 1, 0 - 214>>,
      <<637, 637, 1, 10727>>, <<640, 640, 1, 0 - 218>>,
      <<642, 642, 1, 42307>>, <<643, 643, 1, 0 - 218>>,
      <<647, 647, 1, 42282>>, <<648, 648, 1, 0 - 218>>,
      <<649, 649, 1, 0 - 69>>, <<650, 651, 1, 0 - 217>>,
      <<652, 652, 1, 0 - 71>>, <<658, 658, 1, 0 - 219>>,
      <<669, 669, 1, 42261>>, <<670, 670, 1, 42258>>, <<837, 837, 1, 84>>,
      <<881, 883, 2, 0 - 1>>, <<887, 887, 1, 0 - 1>>, <<891, 893, 1, 130>>,
      <<940, 940, 1, 0 - 38>>, <<941, 943, 1, 0 - 37>>,
      <<945, 961, 1, 0 - 32>>, <<962, 962, 1, 0 - 31>>,
      <<963, 971, 1, 0 - 32>>, <<972, 972, 1, 0 - 64>>,
      <<973, 974, 1, 0 - 63>>, <<976, 976, 1, 0 - 62>>,
      <<977, 977, 1, 0 - 57>>, <<981, 981, 1, 0 - 47>>,
      <<982, 982, 1, 0 - 54>>, <<983, 983, 1, 0 - 8>>,
      <<985, 1007, 2, 0 - 1>>, <<1008, 1008, 1, 0 - 86>>,
      <<1009, 1009, 1, 0 - 80>>, <<1010, 1010, 1, 7>>,
      <<1011, 1011, 1, 0 - 116>>, <<1013, 1013, 1, 0 - 96>>,
      <<1016, 1016, 1, 0 - 1>>, <<1019, 1019, 1, 0 - 1>>,
      <<1072, 1103, 1, 0 - 32>>, <<1104, 1119, 1, 0 - 80>>,
      <<1121, 1153, 2, 0 - 1>>, <<1163, 1215, 2, 0 - 1>>,
      <<1218, 1230, 2, 0 - 1>>, <<1231, 1231, 1, 0 - 15>>,
      <<1233, 1327, 2, 0 - 1>>, <<1377, 1414, 1, 0 - 48>>,
      <<4304, 4346, 1, 3008>>, <<4349, 4351, 1, 3008>>,
      <<5112, 5117, 1, 0 - 8>>, <<7296, 7296, 1, 0 - 6254>>,
      <<7297, 7297, 1, 0 - 6253>>, <<7298, 7298, 1, 0 - 6244>>,
      <<7299, 7300, 1, 0 - 6242>>, <<7301, 7301, 1, 0 - 6243>>,
      <<7302, 7302, 1, 0 - 6236>>, <<7303, 7303, 1, 0 - 6181>>,
      <<7304, 7304, 1, 35266>>, <<7545, 7545, 1, 35332>>,
      <<7549, 7549, 1, 3814>>, <<7566, 7566, 1, 35384>>,
      <<7681, 7829, 2, 0 - 1>>, <<7835, 7835, 1, 0 - 59>>,
      <<7841, 7935, 2, 0 - 1>>, <<7936, 7943, 1, 8>>, <<7952, 7957, 1, 8>>,
      <<7968, 7975, 1, 8>>, <<7984, 7991, 1, 8>>, <<8000, 8005, 1, 8>>,
      <<8017, 8023, 2, 8>>, <<8032, 8039, 1, 8>>, <<8048, 8049, 1, 74>>,
      <<8050, 8053, 1, 86>>, <<8054, 8055, 1, 100>>,
      <<8056, 8057, 1, 128>>, <<8058, 8059, 1, 112>>,
      <<8060, 8061, 1, 126>>, <<8112, 8113, 1, 8>>,
      <<8126, 8126, 1, 0 - 7205>>, <<8144, 8145, 1, 8>>,
      <<8160, 8161, 1, 8>>, <<8165, 8165, 1, 7>>,
      <<8526, 8526, 1, 0 - 28>>, <<8560, 8575, 1, 0 - 16>>,
      <<8580, 8580, 1, 0 - 1>>, <<9424, 9449, 1, 0 - 26>>,
      <<11312, 11359, 1, 0 - 48>>, <<11361, 11361, 1, 0 - 1>>,
      <<11365, 11365, 1, 0 - 10795>>, <<11366, 11366, 1, 0 - 10792>>,
      <<11368, 11372, 2, 0 - 1>>, <<11379, 11379, 1, 0 - 1>>,
      <<11382, 11382, 1, 0 - 1>>, <<11393, 11491, 2, 0 - 1>>,
      <<11500, 11502, 2, 0 - 1>>, <<11507, 11507, 1, 0 - 1>>,
      <<11520, 11557, 1, 0 - 7264>>, <<11559, 11559, 1, 0 - 7264>>,
      <<11565, 11565, 1, 0 - 7264>>, <<42561, 42605, 2, 0 - 1>>,
      <<42625, 42651, 2, 0 - 1>>, <<42787, 42799, 2, 0 - 1>>,
      <<42803, 42863, 2, 0 - 1>>, <<42874, 42876, 2, 0 - 1>>,
      <<42879, 42887, 2, 0 - 1>>, <<42892, 42892, 1, 0 - 1>>,
      <<42897, 42899, 2, 0 - 1>>, <<42900, 42900, 1, 48>>,
      <<42903, 42921, 2, 0 - 1>>, <<42933, 42947, 2, 0 - 1>>,
      <<42952, 42954, 2, 0 - 1>>, <<42961, 42961, 1, 0 - 1>>,
      <<42967, 42969, 2, 0 - 1>>, <<42998, 42998, 1, 0 - 1>>,
      <<43859, 43859, 1, 0 - 928>>, <<43888, 43967, 1, 0 - 38864>>,
      <<65345, 65370, 1, 0 - 32>>, <<66600, 66639, 1, 0 - 40>>,
      <<66776, 66811, 1, 0 - 40>>, <<66967, 67003, 2, 0 - 39>>,
      <<66968, 66976, 2, 0 - 39>>, <<66980, 66992, 2, 0 - 39>>,
      <<66996, 67000, 2, 0 - 39>>, <<67004, 67004, 1, 0 - 39>>,
      <<68800, 68850, 1, 0 - 64>>, <<71872, 71903, 1, 0 - 32>>,
      <<93792, 93823, 1, 0 - 32>>, <<125218, 125251, 1, 0 - 34>> }

\* str.upper() of one character, where the result is several characters.
UpperSpecial ==
    { <<223, <<83, 83>>>>, <<329, <<700, 78>>>>, <<496, <<74, 780>>>>,
      <<912, <<921, 776, 769>>>>, <<944, <<933, 776, 769>>>>,
      <<1415, <<1333, 1362>>>>, <<7830, <<72, 817>>>>,
      <<7831, <<84, 776>>>>, <<7832, <<87, 778>>>>, <<7833, <<89, 778>>>>,
      <<7834, <<65, 702>>>>, <<8016, <<933, 787>>>>,
      <<8018, <<933, 787, 768>>>>, <<8020, <<933, 787, 769>>>>,
      <<8022, <<933, 787, 834>>>>, <<8064, <<7944, 921>>>>,
      <<8065, <<7945, 921>>>>, <<8066, <<7946, 921>>>>,
      <<8067, <<7947, 921>>>>, <<8068, <<7948, 921>>>>,
      <<8069, <<7949, 921>>>>, <<8070, <<7950, 921>>>>,
      <<8071, <<7951, 921>>>>, <<8072, <<7944, 921>>>>,
      <<8073, <<7945, 921>>>>, <<8074, <<7946, 921>>>>,
      <<8075, <<7947, 921>>>>, <<8076, <<7948, 921>>>>,
      <<8077, <<7949, 921>>>>, <<8078, <<7950, 921>>>>,
      <<8079, <<7951, 921>>>>, <<8080, <<7976, 921>>>>,
      <<8081, <<7977, 921>>>>, <<8082, <<7978, 921>>>>,
      <<8083, <<7979, 921>>>>, <<8084, <<7980, 921>>>>,
      <<8085, <<7981, 921>>>>, <<8086, <<7982, 921>>>>,
      <<8087, <<7983, 921>>>>, <<8088, <<7976, 921>>>>,
      <<8089, <<7977, 921>>>>, <<8090, <<7978, 921>>>>,
      <<8091, <<7979, 921>>>>, <<8092, <<7980, 921>>>>,
      <<8093, <<7981, 921>>>>, <<8094, <<7982, 921>>>>,
      <<8095, <<7983, 921>>>>, <<8096, <<8040, 921>>>>,
      <<8097, <<8041, 921>>>>, <<8098, <<8042, 921>>>>,
      <<8099, <<8043, 921>>>>, <<8100, <<8044, 921>>>>,
      <<8101, <<8045, 921>>>>, <<8102, <<8046, 921>>>>,
      <<8103, <<8047, 921>>>>, <<8104, <<8040, 921>>>>,
      <<8105, <<8041, 921>>>>, <<8106, <<8042, 921>>>>,
      <<8107, <<8043, 921>>>>, <<8108, <<8044, 921>>>>,
      <<8109, <<8045, 921>>>>, <<8110, <<8046, 921>>>>,
      <<8111, <<8047, 921>>>>, <<8114, <<8122, 921>>>>,
      <<8115, <<913, 921>>>>, <<8116, <<902, 921>>>>,
      <<8118, <<913, 834>>>>, <<8119, <<913, 834, 921>>>>,
      <<8124, <<913, 921>>>>, <<8130, <<8138, 921>>>>,
      <<8131, <<919, 921>>>>, <<8132, <<905, 921>>>>,
      <<8134, <<919, 834>>>>, <<8135, <<919, 834, 921>>>>,
      <<8140, <<919, 921>>>>, <<8146, <<921, 776, 768>>>>,
      <<8147, <<921, 776, 769>>>>, <<8150, <<921, 834>>>>,
      <<8151, <<921, 776, 834>>>>, <<8162, <<933, 776, 768>>>>,
      <<8163, <<933, 776, 769>>>>, <<8164, <<929, 787>>>>,
      <<8166, <<933, 834>>>>, <<8167, <<933, 776, 834>>>>,
      <<8178, <<8186, 921>>>>, <<8179, <<937, 921>>>>,
      <<8180, <<911, 921>>>>, <<8182, <<937, 834>>>>,
      <<8183, <<937, 834, 921>>>>, <<8188, <<937, 921>>>>,
      <<64256, <<70, 70>>>>, <<64257, <<70, 73>>>>, <<64258, <<70, 76>>>>,
      <<64259, <<70, 70, 73>>>>, <<64260, <<70, 70, 76>>>>,
      <<64261, <<83, 84>>>>, <<64262, <<83, 84>>>>,
      <<64275, <<1348, 1350>>>>, <<64276, <<1348, 1333>>>>,
      <<64277, <<1348, 1339>>>>, <<64278, <<1358, 1350>>>>,
      <<64279, <<1348, 1341>>>> }

upper_char(c) ==
    IF \E p \in UpperSpecial : p[1] = c
    THEN (CHOOSE p \in UpperSpecial : p[1] = c)[2]
    ELSE IF \E r \in UpperRanges : c \in r[1]..r[2] /\ (c - r[1]) % r[3] = 0
    THEN <<c + (CHOOSE r \in UpperRanges : c \in r[1]..r[2] /\ (c - r[1]) % r[3] = 0)[4]>>
    ELSE <<c>>

\* str.upper()
RECURSIVE upper(_)
upper(s) ==
    IF Len(s) = 0 THEN <<>>
    ELSE upper_char(s[1]) \o upper(Tail(s))

\* The characters int() skips around a literal: the ASCII white space
\* \t \n \v \f \r and space, and the Unicode white space above U+007F
\* (U+001C to U+001F are white space for str.isspace but not for int()).
Whitespace ==
    {9, 10, 11, 12, 13, 32, 133, 160, 5760, 8232, 8233, 8239, 8287, 12288} \cup 8192..8202

\* The literal of int(s) without its leading and trailing white space.
strip(s) ==
    LET kept == {i \in 1..Len(s) : s[i] \notin Whitespace}
    IN  IF kept = {} THEN <<>>
        ELSE SubSeq(s, CHOOSE i \in kept : \A j \in kept : i <= j,
                       CHOOSE i \in kept : \A j \in kept : i >= j)

\* The code points of the digit zero of every Unicode decimal digit block
\* (category Nd); the digits 0 to 9 of a block follow its zero.
DecimalZeros ==
    { 48, 1632, 1776, 1984, 2406, 2534, 2662, 2790, 2918, 3046, 3174, 3302,
      3430, 3558, 3664, 3792, 3872, 4160, 4240, 6112, 6160, 6470, 6608,
      6784, 6800, 6992, 7088, 7232, 7248, 42528, 43216, 43264, 43472,
      43504, 43600, 44016, 65296, 66720, 68912, 69734, 69872, 69942, 70096,
      70384, 70736, 70864, 71248, 71360, 71472, 71904, 72016, 72784, 73040,
      73120, 92768, 92864, 93008, 120782, 120792, 120802, 120812, 120822,
      123200, 123632, 125264, 130032 }

IsDigit(c) == \E z \in DecimalZeros : c \in z..(z + 9)

DigitValue(c) == c - (CHOOSE z \in DecimalZeros : c \in z..(z + 9))

Underscore == Ord["_"]

\* The digit part of an int() literal: digits, single underscores allowed
\* between two digits only.
IsDigitString(s) ==
    /\ Len(s) > 0
    /\ \A i \in 1..Len(s) :
          \/ IsDigit(s[i])
          \/ /\ s[i] = Underscore
             /\ i > 1 /\ i < Len(s)
             /\ IsDigit(s[i - 1]) /\ IsDigit(s[i + 1])

\* The number of digits of a digit string.
DigitCount(s) == Cardinality({i \in 1..Len(s) : s[i] # Underscore})

RECURSIVE DigitStringValue(_, _)
DigitStringValue(s, acc) ==
    IF Len(s) = 0 THEN acc
    ELSE IF s[1] = Underscore THEN DigitStringValue(Tail(s), acc)
    ELSE DigitStringValue(Tail(s), 10 * acc + DigitValue(s[1]))

HasSign(t) == Len(t) > 0 /\ t[1] \in {Ord["+"], Ord["-"]}

Unsigned(t) == IF HasSign(t) THEN Tail(t) ELSE t

\* int(s) raises ValueError: s is not [whitespace][sign]digits[whitespace],
\* or it has more digits than sys.get_int_max_str_digits(), 4300.
IntRaises(s) ==
    \/ ~IsDigitString(Unsigned(strip(s)))
    \/ DigitCount(Unsigned(strip(s))) > 4300

\* int(s) when it does not raise (Python integers are unbounded).
IntOf(s) ==
    LET t == strip(s)
        v == DigitStringValue(Unsigned(t), 0)
    IN  IF HasSign(t) /\ t[1] = Ord["-"] THEN 0 - v ELSE v

\* dict helpers: a dict is a function from its keys.
EmptyDict == <<>>

DictSet(d, k, v) == (k :> v) @@ d

DictDel(d, k) == [x \in (DOMAIN d) \ {k} |-> d[x]]

\* --------------------------------------------------- get_feed_sources
\* The route's format dispatch table.
feed_types == {S("rss")}

\* subset -> the NewsApiClient method it selects.
newsapi_getters ==
    (S("all") :> "get_everything") @@ (S("top") :> "get_top_headlines")

\* route_error without the feed type check.
route_error_no_feed_type(ft, ss) ==
    IF ss \notin DOMAIN newsapi_getters
    THEN "invalid subset, must be one of: dict_keys(['all', 'top'])"
    ELSE ""

\* abort(401, ...) for an unknown feed type or subset; "" when the route is accepted.
route_error(ft, ss) ==
    IF ft \notin feed_types THEN "invalid feed type, must be one of: dict_keys(['rss'])"
    ELSE IF ss \notin DOMAIN newsapi_getters THEN "invalid subset, must be one of: dict_keys(['all', 'top'])"
    ELSE ""

\* dict_zip pairing like zip_longest: a final unmatched token becomes a key
\* with an empty value.
RECURSIVE dict_zip_longest(_, _)
dict_zip_longest(tokens, d) ==
    IF Len(tokens) = 0 THEN d
    ELSE IF Len(tokens) = 1 THEN DictSet(d, tokens[1], S(""))
    ELSE dict_zip_longest(SubSeq(tokens, 3, Len(tokens)), DictSet(d, tokens[1], tokens[2]))

\* dict(zip(it, it)): it yields a key, then a value; zip stops when either
\* next() is exhausted, and a later pair overwrites an earlier key.
RECURSIVE dict_zip(_, _)
dict_zip(tokens, d) ==
    IF Len(tokens) < 2 THEN d
    ELSE dict_zip(SubSeq(tokens, 3, Len(tokens)), DictSet(d, tokens[1], tokens[2]))

\* query = dict(zip(it, it)) with it = iter(query_path.split('/'))
path_query(path) == dict_zip(split(path, S("/")), EmptyDict)

\* A str compared with a dict: never equal.
StrEqualsDict(s, d) == FALSE

\* `s in cache` for a str s and the list of source dicts.
StrInList(s, cache) == \E j \in 1..Len(cache) : StrEqualsDict(s, cache[j])

\* cache[s]["name"] or s: indexing the list with a str raises TypeError.
TypeErrorMark == S("<TypeError>")

\* One name of the "from ..." clause of a sources filter.
query_source_name(s, cache) ==
    IF StrInList(s, cache) THEN TypeErrorMark ELSE s

RECURSIVE query_sources_names(_, _)
query_sources_names(ids, cache) ==
    IF Len(ids) = 0 THEN <<>>
    ELSE <<query_source_name(ids[1], cache)>> \o query_sources_names(Tail(ids), cache)

\* pycountry.countries.get(alpha_2=...): an extract of the ISO 3166 table.
countries == (S("US") :> S("United States")) @@ (S("FR") :> S("France"))

country_name(code) ==
    IF upper(code) \in DOMAIN countries THEN countries[upper(code)] ELSE code

\* description_tokens with the category test as an elif of the country test.
description_tokens_elif(q, cache) ==
    (IF S("sources") \in DOMAIN q
     THEN <<S("from ") \o join(S(", "), query_sources_names(split(q[S("sources")], S(",")), cache))>>
     ELSE IF S("country") \in DOMAIN q
     THEN <<S("from country '") \o country_name(q[S("country")]) \o S("'")>>
     ELSE IF S("category") \in DOMAIN q
     THEN <<S("in category '") \o q[S("category")] \o S("'")>>
     ELSE <<>>)
    \o
    (IF S("q") \in DOMAIN q THEN <<S("that match '") \o q[S("q")] \o S("'")>> ELSE <<>>)

\* The clauses of the description, in order.
description_tokens(q, cache) ==
    (IF S("sources") \in DOMAIN q
     THEN <<S("from ") \o join(S(", "), query_sources_names(split(q[S("sources")], S(",")), cache))>>
     ELSE (IF S("country") \in DOMAIN q
           THEN <<S("from country '") \o country_name(q[S("country")]) \o S("'")>>
           ELSE <<>>)
          \o
          (IF S("category") \in DOMAIN q
           THEN <<S("in category '") \o q[S("category")] \o S("'")>>
           ELSE <<>>))
    \o
    (IF S("q") \in DOMAIN q THEN <<S("that match '") \o q[S("q")] \o S("'")>> ELSE <<>>)

get_query_description(q, cache) ==
    S("News articles ") \o join(S(", "), description_tokens(q, cache))

\* bottle.request.url of the request (the server's default host and port).
request_url(ft, ss, path) ==
    S("http://localhost:8080/") \o ft \o S("/") \o ss \o S("/") \o path

\* Default page size when none survives the cast.
DefaultPageSize == 100

\* cast_int whose except clause stores 1 instead of deleting the key.
cast_int_default(q, key) ==
    IF key \notin DOMAIN q THEN q
    ELSE IF IntRaises(q[key]) THEN DictSet(q, key, 1)
    ELSE DictSet(q, key, IntOf(q[key]))

\* try: query[key] = int(query[key])  except ValueError: del query[key]
cast_int(q, key) ==
    IF key \notin DOMAIN q THEN q
    ELSE IF IntRaises(q[key]) THEN DictDel(q, key)
    ELSE DictSet(q, key, IntOf(q[key]))

\* cast_integers that clamps page_size to the provider's maximum.
cast_integers_clamped(q) ==
    LET q1 == cast_int(q, S("page_size"))
        q2 == cast_int(q1, S("page"))
    IN  IF S("page_size") \notin DOMAIN q2 THEN DictSet(q2, S("page_size"), DefaultPageSize)
        ELSE IF q2[S("page_size")] > DefaultPageSize
        THEN DictSet(q2, S("page_size"), DefaultPageSize)
        ELSE q2

\* The "Cast integer values" block and the page_size default.
cast_integers(q) ==
    LET q1 == cast_int(q, S("page_size"))
        q2 == cast_int(q1, S("page"))
    IN  IF S("page_size") \notin DOMAIN q2 THEN DictSet(q2, S("page_size"), DefaultPageSize)
        ELSE q2

\* ------------------------------------------------------------ _feed_rss
\* Outcomes of a call: a value, abort(401, message), or an uncaught exception,
\* which the server answers with status 500.
Returned(v) == [raised |-> "none", message |-> "", value |-> <<v>>]

Aborted(msg) == [raised |-> "abort", message |-> msg, value |-> <<>>]

Uncaught(exc) == [raised |-> exc, message |-> exc, value |-> <<>>]

\* '%s' % v
PyStr(v) == IF v = None THEN S("None") ELSE v

\* The entry the loop body builds from an article that has its required fields.
make_entry(article) ==
    LET e0 == [title |-> article["title"], content |-> article["content"],
               description |-> article["description"]]
        e1 == IF "author" \in DOMAIN article /\ Truthy(article["author"])
              THEN DictSet(e0, "author", [name |-> article["author"], email |-> S("e@ma.il")])
              ELSE e0
        e2 == IF "url" \in DOMAIN article /\ Truthy(article["url"])
              THEN DictSet(e1, "link", [href |-> article["url"], rel |-> S("alternate")])
              ELSE e1
    IN  IF "publishedAt" \in DOMAIN article
        THEN DictSet(e2, "pubDate", article["publishedAt"])
        ELSE e2

\* x in list, for a list of source sub-records.
InList(x, list) == \E j \in 1..Len(list) : list[j] = x

\* The for loop over the articles: the entries and the distinct sources, or
\* the first abort or exception.
RECURSIVE add_entries(_, _, _)
add_entries(arts, entries, sources) ==
    IF Len(arts) = 0 THEN Returned([entries |-> entries, sources |-> sources])
    ELSE LET article == arts[1]
         IN  IF "title" \notin DOMAIN article
                \/ "content" \notin DOMAIN article
                \/ "description" \notin DOMAIN article
             THEN Aborted("an error occurred while adding an entry")
             ELSE IF "source" \notin DOMAIN article THEN Uncaught("KeyError")
             ELSE add_entries(Tail(arts),
                              Append(entries, make_entry(article)),
                              IF InList(article["source"], sources) THEN sources
                              ELSE Append(sources, article["source"]))

\* set_feed_meta(feed, title, link, description, **optional_fields)
set_feed_meta(feed, title, link, description, optional_fields) ==
    LET f0 == DictSet(DictSet(DictSet(feed, "title", title),
                              "link", [href |-> link, rel |-> S("self")]),
                      "description", description)
        f1 == IF "id" \in DOMAIN optional_fields
              THEN DictSet(f0, "id", optional_fields["id"]) ELSE f0
        f2 == IF "category" \in DOMAIN optional_fields
              THEN DictSet(f1, "category", optional_fields["category"]) ELSE f1
    IN  IF "language" \in DOMAIN optional_fields
        THEN DictSet(f2, "language", optional_fields["language"]) ELSE f2

\* The fields of a source record among `keys`, copied into a new dict.
copy_fields(from, keys) == [k \in (DOMAIN from) \cap keys |-> from[k]]

\* The keys of the query among `keys`, copied into a new dict.
copy_query_fields(q, keys) == [k \in {f \in keys : S(f) \in DOMAIN q} |-> q[S(k)]]

\* next((s for s in sources_cache if source["id"] == s["id"]), None): the
\* index of the first match, 0 for None.
RECURSIVE find_source_meta(_, _, _)
find_source_meta(cache, id, j) ==
    IF j > Len(cache) THEN 0
    ELSE IF cache[j]["id"] = id THEN j
    ELSE find_source_meta(cache, id, j + 1)

\* The names of the "more than one source" branch, or KeyError.
RECURSIVE multi_sources_names(_, _, _)
multi_sources_names(sources, cache, names) ==
    IF Len(sources) = 0 THEN Returned(names)
    ELSE LET source == sources[1]
         IN  IF "name" \notin DOMAIN source THEN Uncaught("KeyError")
             ELSE IF Truthy(source["name"])
             THEN multi_sources_names(Tail(sources), cache, Append(names, source["name"]))
             ELSE IF "id" \notin DOMAIN source THEN Uncaught("KeyError")
             ELSE IF Truthy(source["id"])
             THEN multi_sources_names(Tail(sources), cache,
                      Append(names, IF StrInList(source["id"], cache)
                                    THEN TypeErrorMark ELSE source["id"]))
             ELSE multi_sources_names(Tail(sources), cache, names)

\* The feed-level metadata by number of distinct sources.
feed_meta(cache, q, meta, feed, sources) ==
    IF Len(sources) = 0
    THEN Returned(set_feed_meta(feed, meta["description"], meta["url"],
                                meta["description"],
                                copy_query_fields(q, {"category", "language"})))
    ELSE IF Len(sources) = 1
    THEN LET source == sources[1]
         IN  IF Len(cache) > 0 /\ "id" \notin DOMAIN source THEN Uncaught("KeyError")
             ELSE LET j == IF Len(cache) = 0 THEN 0
                           ELSE find_source_meta(cache, source["id"], 1)
                  IN  IF j # 0
                      THEN LET source_meta == cache[j]
                           IN  IF "name" \notin DOMAIN source_meta
                                  \/ "url" \notin DOMAIN source_meta
                                  \/ "description" \notin DOMAIN source_meta
                               THEN Aborted("an error occurred while generating the feed")
                               ELSE Returned(set_feed_meta(feed,
                                        source_meta["name"], source_meta["url"],
                                        source_meta["description"],
                                        copy_fields(source_meta,
                                                    {"id", "category", "language"})))
                      ELSE IF "name" \notin DOMAIN source THEN Uncaught("KeyError")
                      ELSE IF ~Truthy(source["name"]) /\ "id" \notin DOMAIN source
                      THEN Uncaught("KeyError")
                      ELSE Returned(set_feed_meta(feed,
                               meta["description"], meta["url"],
                               S("News articles from ") \o
                                   PyStr(IF Truthy(source["name"]) THEN source["name"]
                                         ELSE source["id"]),
                               EmptyDict))
    ELSE LET names == multi_sources_names(sources, cache, <<>>)
         IN  IF names.raised # "none" THEN names
             ELSE Returned(set_feed_meta(feed,
                      meta["description"], meta["url"],
                      S("News articles from ") \o join(S(", "), names.value[1]),
                      copy_query_fields(q, {"category", "language"})))

\* feed.rss_str() raises ValueError: a feed needs a title, a link and a
\* description, an entry a title, a description or a content.
rss_str_raises(feed) ==
    \/ ~Truthy(feed["title"])
    \/ ~Truthy(feed["link"].href)
    \/ ~Truthy(feed["description"])
    \/ \E i \in 1..Len(feed["entries"]) :
          LET e == feed["entries"][i]
          IN  ~(Truthy(e["title"]) \/ Truthy(e["description"]) \/ Truthy(e["content"]))

\* _feed_rss(sources_cache, query, query_meta, articles)
feed_rss(cache, q, meta, arts) ==
    LET loop == add_entries(arts, <<>>, <<>>)
    IN  IF loop.raised # "none" THEN loop
        ELSE LET feed0 == [entries |-> loop.value[1].entries]
                 m == feed_meta(cache, q, meta, feed0, loop.value[1].sources)
             IN  IF m.raised # "none" THEN m
                 ELSE IF rss_str_raises(m.value[1])
                 THEN Aborted("an error occurred while generating the feed")
                 ELSE m

\* The HTTP status of an outcome: 200, abort's 401, 500 for an uncaught exception.
http_status(outcome) ==
    IF outcome.raised = "none" THEN 200
    ELSE IF outcome.raised = "abort" THEN 401
    ELSE 500

\* ------------------------------------------------------------------ inputs
\* The Source Directory fetched at start-up: a list of source records.
SourcesDirectory ==
    << [id |-> S("abc"), name |-> S("ABC News"), url |-> S("https://abcnews.go.com"),
        description |-> S("Your trusted source for breaking news."),
        category |-> S("general"), language |-> S("en")],
       [id |-> S("bbc"), name |-> S("BBC News"), url |-> S("http://www.bbc.co.uk/news"),
        description |-> S("Use BBC News for up-to-the-minute news.")],
       [id |-> S("nourl"), name |-> S("No URL"), description |-> S("A record without url.")],
       [id |-> S("anon"), name |-> S(""), url |-> S("http://anon.example"),
        description |-> S("A record with an empty name.")] >>

KeyTokens ==
    {S("page_size"), S("page"), S("sources"), S("category"), S("country"),
     S("q"), S("")}

\* U+1680 U+06F7 U+000C: a Unicode space, an Extended Arabic-Indic seven
\* and a form feed, an int() literal of value 7.
OghamSeven == <<5760, 1783, 12>>

ValueTokens ==
    {S("250"), S("7"), S("-5"), S(" 1_0"), OghamSeven, S("x9"), S("abc,def"),
     S("us"), S("")}

\* Token sequences of length n: keys at odd positions, values at even ones.
RECURSIVE TokenSeqs(_)
TokenSeqs(n) ==
    IF n = 0 THEN {<<>>}
    ELSE {Append(p, t) : p \in TokenSeqs(n - 1),
                         t \in IF n % 2 = 1 THEN KeyTokens ELSE ValueTokens}

\* The path tails of the requests: the route's <query_path:path> is not empty.
QueryPaths ==
    {join(S("/"), toks) : toks \in UNION {TokenSeqs(n) : n \in 1..MaxTokens}} \ {S("")}

\* A few path tails for the requests whose article list varies.
FeedPaths == {S("q/x9"), S("category/us/language/en"), S("sources/abc,def/page/2")}

\* Source sub-records of articles.
ArticleSources ==
    { [id |-> S("abc"), name |-> S("ABC News")],
      [id |-> S("abc"), name |-> S("ABC")],
      [id |-> S("abc")],
      [id |-> S("bbc"), name |-> S("")],
      [id |-> None, name |-> S("X")],
      [id |-> S("yy"), name |-> S("Y")],
      [id |-> S("zz"), name |-> S("")],
      [id |-> S("nourl"), name |-> S("No URL")],
      [id |-> S("anon"), name |-> S("Anon")] }

CompleteArticle(src) ==
    [title |-> S("T"), content |-> S("C"), description |-> S("D"), source |-> src]

\* Article records the provider may return.
ArticlePool ==
    {CompleteArticle(src) : src \in ArticleSources}
    \cup
    { [content |-> S("C"), description |-> S("D"),
       source |-> [id |-> S("abc"), name |-> S("ABC News")]],
      [title |-> S("T"), description |-> S("D"),
       source |-> [id |-> S("abc"), name |-> S("ABC News")]],
      [title |-> S("T"), content |-> S("C"),
       source |-> [id |-> S("abc"), name |-> S("ABC News")]],
      [title |-> S("T"), content |-> S("C"), description |-> S("D")],
      [title |-> None, content |-> None, description |-> None,
       source |-> [id |-> S("abc"), name |-> S("ABC News")]],
      [title |-> S("T"), content |-> S("C"), description |-> S("D"), author |-> S("A"),
       url |-> S("http://a.example/1"), publishedAt |-> S("2019-01-01T00:00:00Z"),
       source |-> [id |-> S("abc"), name |-> S("ABC News")]] }

RECURSIVE ArticleLists(_)
ArticleLists(n) ==
    IF n = 0 THEN {<<>>}
    ELSE {Append(l, a) : l \in ArticleLists(n - 1), a \in ArticlePool}

\* What the provider does when called: returns a result dict or raises.
ProviderResult(arts) == [totalResults |-> Len(arts), articles |-> arts]

ProviderReturns(result) == [raises |-> "none", result |-> result]

ProviderRaises(exc) == [raises |-> exc, result |-> EmptyDict]

\* The exception classes of the except clauses of lines 274-279.
ProviderExceptions == {"ValueError", "TypeError", "NewsAPIException"}

\* Exceptions the provider call can raise: the caught ones, and others (a
\* connection failure, a KeyError) that no except clause names.
RaisedExceptions == ProviderExceptions \cup {"OSError", "KeyError"}

\* Result dicts without one of the keys the handler reads.
IncompleteResults == {[articles |-> <<>>], [totalResults |-> 0]}

\* ------------------------------------------------------------ the request
InitRequest(ft, ss, path, up) ==
    /\ pc = "route"
    /\ feed_type = ft
    /\ subset = ss
    /\ query_path = path
    /\ sources_cache = SourcesDirectory
    /\ upstream = up
    /\ query = EmptyDict
    /\ query_meta = [url |-> S(""), description |-> S("")]
    /\ articles = EmptyDict
    /\ provider_calls = <<>>
    /\ status = 0
    /\ reason = ""
    /\ body = <<>>

\* Requests: any path tail with an empty result; any route with a provider
\* that returns or raises; any article list on a few path tails.
Init ==
    \/ \E path \in QueryPaths :
          InitRequest(S("rss"), S("all"), path, ProviderReturns(ProviderResult(<<>>)))
    \/ \E ft \in {S("rss"), S("atom")}, ss \in {S("all"), S("top"), S("latest")}, path \in FeedPaths,
          up \in {ProviderReturns(ProviderResult(<<>>))}
                 \cup {ProviderReturns(r) : r \in IncompleteResults}
                 \cup {ProviderRaises(e) : e \in RaisedExceptions} :
          InitRequest(ft, ss, path, up)
    \/ \E path \in FeedPaths, n \in 1..MaxArticles :
          \E arts \in ArticleLists(n) :
             InitRequest(S("rss"), S("top"), path, ProviderReturns(ProviderResult(arts)))

\* Lines 208-211: the route is rejected, or accepted.
RouteCheck ==
    /\ pc = "route"
    /\ IF route_error(feed_type, subset) # ""
       THEN /\ status' = 401
            /\ reason' = route_error(feed_type, subset)
            /\ pc' = "done"
       ELSE /\ pc' = "parse"
            /\ UNCHANGED <<status, reason>>
    /\ UNCHANGED <<feed_type, subset, query_path, sources_cache, upstream, query,
                   query_meta, articles, provider_calls, body>>

\* Lines 213-215: the path tail becomes the query dict.
ParsePath ==
    /\ pc = "parse"
    /\ query' = path_query(query_path)
    /\ pc' = "describe"
    /\ UNCHANGED <<feed_type, subset, query_path, sources_cache, upstream,
                   query_meta, articles, provider_calls, status, reason, body>>

\* Lines 247-251: query_meta.
DescribeQuery ==
    /\ pc = "describe"
    /\ query_meta' = [url |-> request_url(feed_type, subset, query_path),
                      description |-> get_query_description(query, sources_cache)]
    /\ pc' = "cast"
    /\ UNCHANGED <<feed_type, subset, query_path, sources_cache, upstream,
                   query, articles, provider_calls, status, reason, body>>

\* Lines 253-268: integer casts and the page_size default.
CastIntegers ==
    /\ pc = "cast"
    /\ query' = cast_integers(query)
    /\ pc' = "fetch"
    /\ UNCHANGED <<feed_type, subset, query_path, sources_cache, upstream,
                   query_meta, articles, provider_calls, status, reason, body>>

\* The try block of lines 270-279: the provider call and the read of
\* articles["totalResults"]; a caught exception aborts with 401, any other
\* exception (the KeyError of a result without totalResults included) leaves
\* the handler uncaught.
fetch_articles(up) ==
    IF up.raises \in ProviderExceptions
    THEN Aborted("an error occurred while fetching the articles")
    ELSE IF up.raises # "none" THEN Uncaught(up.raises)
    ELSE IF "totalResults" \notin DOMAIN up.result THEN Uncaught("KeyError")
    ELSE Returned(up.result)

\* Lines 270-279: the provider call, its except clauses, and the response
\* when an exception ends the request.
FetchArticles ==
    /\ pc = "fetch"
    /\ provider_calls' = Append(provider_calls, newsapi_getters[subset])
    /\ LET outcome == fetch_articles(upstream)
       IN  IF outcome.raised # "none"
           THEN /\ status' = http_status(outcome)
                /\ reason' = outcome.message
                /\ pc' = "done"
                /\ UNCHANGED articles
           ELSE /\ articles' = outcome.value[1]
                /\ pc' = "render"
                /\ UNCHANGED <<status, reason>>
    /\ UNCHANGED <<feed_type, subset, query_path, sources_cache, upstream,
                   query, query_meta, body>>

\* Line 281: articles["articles"] (KeyError when the result has none) and
\* _feed_rss, and the response the server makes of the outcome.
RenderFeed ==
    /\ pc = "render"
    /\ LET outcome == IF "articles" \notin DOMAIN articles THEN Uncaught("KeyError")
                      ELSE feed_rss(sources_cache, query, query_meta, articles["articles"])
       IN  /\ status' = http_status(outcome)
           /\ reason' = outcome.message
           /\ body' = outcome.value
    /\ pc' = "done"
    /\ UNCHANGED <<feed_type, subset, query_path, sources_cache, upstream,
                   query, query_meta, articles, provider_calls>>

Next ==
    \/ RouteCheck
    \/ ParsePath
    \/ DescribeQuery
    \/ CastIntegers
    \/ FetchArticles
    \/ RenderFeed

Spec == Init /\ [][Next]_vars

\* ------------------------------------------------------------ properties
\* Phases of a request.
\* The raw query has been built from the path and is not yet cast.
Parsed == pc \in {"describe", "cast"}

\* The query description has been built.
Described == pc \in {"cast", "fetch", "render"} \/ (pc = "done" /\ Len(provider_calls) > 0)

\* The query is in the form handed to the provider.
Handed == pc \in {"fetch", "render"} \/ (pc = "done" /\ Len(provider_calls) > 0)

\* The request was answered with a feed.
FeedReturned == pc = "done" /\ status = 200 /\ Len(body) = 1

\* What the path supplies, read off its tokens.
PathTokens == split(query_path, S("/"))

PairCount == Len(PathTokens) \div 2

SuppliedKeys == {PathTokens[2 * i - 1] : i \in 1..PairCount}

\* The value of the last pair whose key is `key`.
LastSupplied(key) ==
    LET i == CHOOSE i \in 1..PairCount :
                 /\ PathTokens[2 * i - 1] = key
                 /\ \A j \in (i + 1)..PairCount : PathTokens[2 * j - 1] # key
    IN  PathTokens[2 * i]

\* The integer literals among the values of the requests, with their values.
IntegerLiterals ==
    (S("250") :> 250) @@ (S("7") :> 7) @@ (S("-5") :> (0 - 5)) @@ (S(" 1_0") :> 10)
        @@ (OghamSeven :> 7) @@ (S("2") :> 2)

\* The Source Directory read by id.
KnownId(id) == \E j \in 1..Len(sources_cache) : sources_cache[j]["id"] = id

DirectoryRecord(id) ==
    sources_cache[CHOOSE j \in 1..Len(sources_cache) : sources_cache[j]["id"] = id]

\* The article list of the provider's result, once fetched.
ArticleList == IF "articles" \in DOMAIN articles THEN articles["articles"] ELSE <<>>

\* An article without one of its three required text fields.
LacksRequiredField(a) == {"title", "content", "description"} \ DOMAIN a # {}

\* The distinct source sub-records of a list of articles, in first-occurrence order.
RECURSIVE DistinctSources(_, _)
DistinctSources(arts, seen) ==
    IF Len(arts) = 0 THEN seen
    ELSE DistinctSources(Tail(arts),
                         IF \E j \in 1..Len(seen) : seen[j] = arts[1]["source"] THEN seen
                         ELSE Append(seen, arts[1]["source"]))

\* C1: whenever the article list holds an article without title, content or
\* description, the request ends with status 401 and without a feed, wherever
\* that article stands and whatever the other articles are.
C1_FailFast ==
    (pc = "done" /\ \E i \in 1..Len(ArticleList) : LacksRequiredField(ArticleList[i]))
        => (status = 401 /\ body = <<>>)

\* C1 restricted to lists whose articles before the first incomplete one all
\* carry a source sub-record: there the fail-fast outcome is 401.
C1_FailFastWhenSourcesPresent ==
    (/\ pc = "done"
     /\ \E i \in 1..Len(ArticleList) :
           /\ LacksRequiredField(ArticleList[i])
           /\ \A j \in 1..(i - 1) : "source" \in DOMAIN ArticleList[j])
        => (status = 401 /\ body = <<>>)

\* C2: when all articles of a non-empty list carry the same source id and the
\* Source Directory knows it, the feed's title is that record's name and its
\* link that record's url, whatever the embedded names are.
C2_SingleKnownSourceId ==
    (/\ FeedReturned
     /\ Len(ArticleList) > 0
     /\ \A i \in 1..Len(ArticleList) :
           ArticleList[i]["source"]["id"] = ArticleList[1]["source"]["id"]
     /\ KnownId(ArticleList[1]["source"]["id"]))
        => LET rec == DirectoryRecord(ArticleList[1]["source"]["id"])
           IN  /\ body[1]["title"] = rec["name"]
               /\ body[1]["link"].href = rec["url"]

\* The name the sources clause is to show for an id of the filter.
ClaimedFilterName(id) == IF KnownId(id) THEN DirectoryRecord(id)["name"] ELSE id

RECURSIVE ClaimedFilterNames(_)
ClaimedFilterNames(ids) ==
    IF Len(ids) = 0 THEN <<>>
    ELSE <<ClaimedFilterName(ids[1])>> \o ClaimedFilterNames(Tail(ids))

\* C3: with a sources filter, the description contains "from " and the
\* comma-joined names, a known id shown by its Source Directory name and an
\* unknown id shown raw.
C3_SourcesClause ==
    (Described /\ S("sources") \in DOMAIN query)
        => Contains(query_meta["description"],
                    S("from ") \o join(S(", "), ClaimedFilterNames(split(query[S("sources")], S(",")))))

\* The name of a source among several: the embedded name, else the Source
\* Directory's name, else the id.
ClaimedSourceName(src) ==
    IF "name" \in DOMAIN src /\ Truthy(src["name"]) THEN src["name"]
    ELSE IF KnownId(src["id"]) THEN DirectoryRecord(src["id"])["name"]
    ELSE src["id"]

RECURSIVE ClaimedSourceNames(_)
ClaimedSourceNames(srcs) ==
    IF Len(srcs) = 0 THEN <<>>
    ELSE <<ClaimedSourceName(srcs[1])>> \o ClaimedSourceNames(Tail(srcs))

\* C4: with more than one distinct source, the feed's title is the query
\* description, its link the request URL and its description "News articles
\* from " and the joined names: embedded name, else directory name, else id.
C4_SeveralSources ==
    (FeedReturned /\ Len(DistinctSources(ArticleList, <<>>)) > 1)
        => /\ body[1]["title"] = query_meta["description"]
           /\ body[1]["link"].href = request_url(feed_type, subset, query_path)
           /\ body[1]["description"] =
                  S("News articles from ")
                      \o join(S(", "), ClaimedSourceNames(DistinctSources(ArticleList, <<>>)))

\* The category clause of a description.
CategoryClause == S("in category '") \o query[S("category")] \o S("'")

\* C5 as stated: a category filter always shows in the description, whether
\* or not a sources or a country filter is present.
C5_CategoryAlways ==
    (Described /\ S("category") \in DOMAIN query)
        => Contains(query_meta["description"], CategoryClause)

\* C5 amended: a category filter shows in the description whenever the query
\* has no sources filter, whether or not a country filter is present.
C5_CategoryWithoutSources ==
    (Described /\ S("category") \in DOMAIN query /\ S("sources") \notin DOMAIN query)
        => Contains(query_meta["description"], CategoryClause)

C5_Witness ==
    /\ Described
    /\ S("category") \in DOMAIN query
    /\ S("country") \in DOMAIN query
    /\ S("sources") \notin DOMAIN query
    /\ Contains(query_meta["description"], S("from country '"))
    /\ Contains(query_meta["description"], CategoryClause)

\* C6: the query handed to the provider has page_size: 100 when the path
\* supplies none or one that is no integer literal, and otherwise the
\* supplied integer itself, unclamped.
C6_PageSizeUnclamped ==
    Handed =>
        /\ S("page_size") \in DOMAIN query
        /\ IF S("page_size") \in SuppliedKeys
              /\ LastSupplied(S("page_size")) \in DOMAIN IntegerLiterals
           THEN query[S("page_size")] = IntegerLiterals[LastSupplied(S("page_size"))]
           ELSE query[S("page_size")] = 100

C6_Witness ==
    /\ Len(provider_calls) = 1
    /\ S("page_size") \in SuppliedKeys
    /\ LastSupplied(S("page_size")) = S("250")
    /\ query[S("page_size")] = 250

\* page is in the query exactly when its literal is an integer, with that value.
PageKeptOnlyWhenInteger ==
    /\ S("page") \in DOMAIN query
           <=> (S("page") \in SuppliedKeys /\ LastSupplied(S("page")) \in DOMAIN IntegerLiterals)
    /\ S("page") \in DOMAIN query => query[S("page")] = IntegerLiterals[LastSupplied(S("page"))]

\* C7 as stated: page_size is always an integer of 1..100, and page is kept
\* only when its literal is an integer.
C7_PageSizeInRange ==
    Handed =>
        /\ S("page_size") \in DOMAIN query
        /\ query[S("page_size")] \in 1..100
        /\ PageKeptOnlyWhenInteger

\* C7 amended: page_size is always an integer, 100 when absent or no integer
\* literal, and page is kept only when its literal is an integer, never
\* defaulted.
C7_PageSizeInteger ==
    Handed =>
        /\ S("page_size") \in DOMAIN query
        /\ query[S("page_size")] \in Int
        /\ (S("page_size") \notin SuppliedKeys
            \/ LastSupplied(S("page_size")) \notin DOMAIN IntegerLiterals)
               => query[S("page_size")] = 100
        /\ PageKeptOnlyWhenInteger

C7_Witness ==
    /\ Handed
    /\ S("page") \in SuppliedKeys
    /\ LastSupplied(S("page")) = S("x9")
    /\ S("page") \notin DOMAIN query
    /\ S("page_size") \in SuppliedKeys
    /\ query[S("page_size")] = 0 - 5

\* C8: parsing never fails: the tokens are paired consecutively, a later pair
\* replacing an earlier one of the same key, an unmatched final token is
\* dropped, and the cast leaves a query of the supplied keys and page_size.
C8_ParserTotal ==
    /\ Parsed =>
          /\ status = 0
          /\ DOMAIN query = SuppliedKeys
          /\ \A k \in SuppliedKeys : query[k] = LastSupplied(k)
    /\ pc = "fetch" =>
          /\ status = 0
          /\ DOMAIN query \subseteq SuppliedKeys \cup {S("page_size")}

C8_Witness ==
    /\ pc = "describe"
    /\ Len(PathTokens) = 3
    /\ PathTokens[3] \notin DOMAIN query
    /\ PathTokens[1] \in DOMAIN query
    /\ status = 0

\* C9: a request with an unknown feed type or subset is answered 401 without
\* any provider call, and no request calls the provider more than once.
C9_RejectedBeforeProvider ==
    /\ (feed_type # S("rss") \/ subset \notin {S("all"), S("top")})
          => /\ provider_calls = <<>>
             /\ pc \in {"route", "done"}
             /\ pc = "done" => (status = 401 /\ body = <<>>)
    /\ Len(provider_calls) <= 1

C9_Witness ==
    /\ pc = "done"
    /\ feed_type = S("rss")
    /\ subset = S("latest")
    /\ status = 401
    /\ provider_calls = <<>>

\* C10: every request ends with status 200 and a feed or with status 401 and
\* no feed.
C10_OnlyTwoOutcomes ==
    pc = "done" =>
        \/ status = 200 /\ Len(body) = 1
        \/ status = 401 /\ body = <<>> /\ reason # ""

====
